---- MODULE Spec2Model ----
(***************************************************************************)
(* pystatemachine: state machines built from generator functions.          *)
(*                                                                         *)
(* A generator object is modelled as a record of its local variables and   *)
(* its position (pc).  The synchronous call chain driver -> sm -> state    *)
(* is the sequence `stack` of generator objects currently executing; the   *)
(* value a callee hands back to its caller (a yielded triple, a            *)
(* StopIteration, the return of close(), another exception) is `ret`.      *)
(* Positions are named after the lines of src/smachine.py.                 *)
(***************************************************************************)
EXTENDS Naturals, Sequences, FiniteSets

VARIABLES gen, n, stack, ret, drv

vars == <<gen, n, stack, ret, drv>>

(* ---------------------------------------------------------------------- *)
(* Bounds                                                                  *)
(* ---------------------------------------------------------------------- *)
\* generator objects that exist in one run (the root sm included)
MaxInst == 4
\* nested state machines: a factory may return a sub-machine below this level
MaxDepth == 2
\* close() calls the driver makes on the root state machine
MaxClose == 2
\* events in the sequence given to iter_sm
MaxEvents == 2
\* values the consumer of iter_sm injects with send()
MaxInject == 1

(* ---------------------------------------------------------------------- *)
(* Values                                                                  *)
(* ---------------------------------------------------------------------- *)
\* Python's None, as state id and as event
None == "None"
\* a local variable that has not been assigned yet
Unbound == "unbound"
StateIds == {"a", "b"}
Events == {None, "n"}
Ctxs == {"c0", "c1"}
Root == 1
Insts == 1..MaxInst

\* The middle component of a value sent into a generator is a state id, a
\* state id vector or None; it is kept as a sequence, None being <<>>.
NoVec == <<>>
UnboundVec == <<Unbound>>
\* the argument of next(), i.e. send(None)
NoVal == [ctx |-> None, vec |-> NoVec, evt |-> None]

NoRet == [kind |-> "none", ctx |-> None, vec |-> NoVec, evt |-> None]
StopIteration == [kind |-> "stop", ctx |-> None, vec |-> NoVec, evt |-> None]
Closed == [kind |-> "closed", ctx |-> None, vec |-> NoVec, evt |-> None]
Fault == [kind |-> "fault", ctx |-> None, vec |-> NoVec, evt |-> None]
Yielded(c, v, e) == [kind |-> "yield", ctx |-> c, vec |-> v, evt |-> e]

(* ---------------------------------------------------------------------- *)
(* Generator objects                                                       *)
(* ---------------------------------------------------------------------- *)
Free ==
  [kind |-> "free", parent |-> 0, level |-> 0, style |-> "none", pc |-> "free",
   ctx |-> None, state_id |-> None, evt |-> None,
   next_state_id |-> Unbound, u |-> UnboundVec, state |-> 0,
   pending |-> "none", exits |-> 0, closes |-> 0,
   entries |-> 0, fcalls |-> 0, absorbed |-> FALSE]

\* sm ignoring its state_id and evt arguments
sm_noargs(p, lvl, c, s, e, sty) ==
  [Free EXCEPT !.kind = "sm", !.parent = p, !.level = lvl, !.style = sty,
               !.pc = "start", !.ctx = c]

\* sm(ctx, state_id=None, evt=None): a state machine generator, not started
sm(p, lvl, c, s, e, sty) ==
  [Free EXCEPT !.kind = "sm", !.parent = p, !.level = lvl, !.style = sty,
               !.pc = "start", !.ctx = c, !.state_id = s, !.evt = e]

\* a state generator (state_ex1, SimpleSM1.state, skeleton_state), not started
leaf(p, lvl, c, s, e, sty) ==
  [Free EXCEPT !.kind = "leaf", !.parent = p, !.level = lvl, !.style = sty,
               !.pc = "start", !.ctx = c, !.state_id = s, !.evt = e]

\* A generator that has finished: its frame and local variables are gone.
\* What stays is bookkeeping: who created it, how it ended (pending) and how
\* often its exit code ran, close() was called on it, it decided to enter a
\* state and it called its factory.
Done(g) ==
  [Free EXCEPT !.kind = g.kind, !.parent = g.parent, !.level = g.level,
               !.pc = "done", !.pending = g.pending,
               !.exits = g.exits, !.closes = g.closes,
               !.entries = g.entries, !.fcalls = g.fcalls]

\* What a state factory called by the machine p (at nesting level lvl) with
\* (ctx, state_id, evt) may return:
\*   "own"  a state yielding [state_id]          (state_ex1)
\*   "dash" a state yielding ['-']               (SimpleSM1.state)
\*   "args" a sub-machine built with (c, n, e)   (PocketCalcOuterSM)
\*   "dflt" a sub-machine built with (c, None, None)  (s_f in test.py)
state_factory(p, lvl, c, s, e) ==
  {leaf(p, lvl + 1, c, s, e, "own"), leaf(p, lvl + 1, c, s, e, "dash")}
  \cup (IF lvl < MaxDepth
          THEN {sm(p, lvl + 1, c, s, e, "args"),
                sm(p, lvl + 1, c, None, None, "dflt")}
          ELSE {})

\* What a transition function may return for (state_id, evt).  A result that
\* enters a new state needs a generator object to be left.
transition_func(s, e) ==
  {None} \cup {r \in StateIds : r = s \/ n < MaxInst}

(* The chain of state machines of src/state.py lines 150-196 (src/test.py) *)
\* SimpleSM1.transition
SimpleSM1_transition(s, e) ==
  CASE s = None /\ e = None -> "s1"
    [] s = "s1" /\ e = "n" -> "s2"
    [] s = "s2" /\ e = "n" -> None
    [] OTHER -> s

\* t_f over a table that goes from m1 to m3
t_f_skip(s, e) ==
  CASE s = None /\ e = None -> "m1"
    [] s = "m1" /\ e = None -> "m3"
    [] s = "m3" /\ e = None -> None
    [] OTHER -> s

\* t_f = lambda c,t: tt.get(t, t[0]) over the table of m1, m2, m3
t_f(s, e) ==
  CASE s = None /\ e = None -> "m1"
    [] s = "m1" /\ e = None -> "m2"
    [] s = "m2" /\ e = None -> "m3"
    [] s = "m3" /\ e = None -> None
    [] OTHER -> s

\* s_f = lambda c,n,e: s[n](c,None,None): a SimpleSM1 machine
s_f(p, lvl, c, s, e) == sm(p, lvl + 1, c, None, None, "dflt")

\* SimpleSM1.state_factory: SimpleSM1.state(ctx, name, evt)
SimpleSM1_state_factory(p, lvl, c, s, e) == leaf(p, lvl + 1, c, s, e, "dash")

\* the generator objects one run of the chain creates: the outer machine,
\* m1, m2, m3 and the states s1 and s2 of each
ChainInsts == 1 + Cardinality({"m1", "m2", "m3"}) * (1 + Cardinality({"s1", "s2"}))

\* a transition function that raises an exception instead of returning
Raises == "raise"
\* a factory that raises an exception (an unknown state id, any other fault)
\* instead of returning a generator object
Broken == [Free EXCEPT !.kind = "raise"]

\* which program runs: the chain example, or a machine whose transition
\* function, factory and states behave in every possible way, either
\* without raising exceptions of their own (any) or with (faulty)
App == IF drv.mode = "run" THEN "any" ELSE drv.app

\* the results the transition function of the machine g may give at line 20
TransitionOf(g) ==
  IF App = "chain"
    THEN {IF g.level = 1 THEN t_f(g.state_id, g.evt)
                         ELSE SimpleSM1_transition(g.state_id, g.evt)}
    ELSE transition_func(g.state_id, g.evt)
           \cup (IF App = "faulty" THEN {Raises} ELSE {})

\* line 29 calling the factory without the event
FactoryOf_noevt(i, g) == state_factory(i, g.level, g.ctx, g.next_state_id, None)

\* the states the factory of the machine g (slot i) may return at line 29
FactoryOf(i, g) ==
  IF App = "chain"
    THEN {IF g.level = 1
            THEN s_f(i, g.level, g.ctx, g.next_state_id, g.evt)
            ELSE SimpleSM1_state_factory(i, g.level, g.ctx, g.next_state_id, g.evt)}
    ELSE state_factory(i, g.level, g.ctx, g.next_state_id, g.evt)
           \cup (IF App = "faulty" THEN {Broken} ELSE {})

Suspended(g) == g.pc \in {"L36", "yield"}

\* generator.send(v) / generator.next(): the callee after the call, whether
\* it runs (run) and, when it does not, what the call returns at once.
GenSend(g, v) ==
  IF g.pc = "start"
    THEN [g |-> [g EXCEPT !.pc = IF g.kind = "sm" THEN "L20" ELSE "body"],
          run |-> TRUE, ret |-> NoRet]
  ELSE IF Suspended(g)
    THEN [g |-> IF g.kind = "sm"
                  THEN [g EXCEPT !.ctx = v.ctx, !.u = v.vec, !.evt = v.evt,
                                 !.pc = "L37"]
                  ELSE [g EXCEPT !.ctx = v.ctx, !.evt = v.evt, !.pc = "body"],
          run |-> TRUE, ret |-> NoRet]
  ELSE [g |-> g, run |-> FALSE, ret |-> StopIteration]

\* generator.close(): GeneratorExit is raised at the yield of a suspended
\* generator; a finished or never started generator is left finished.
GenClose(g) ==
  IF Suspended(g)
    THEN [g |-> IF g.kind = "sm"
                  THEN [g EXCEPT !.pc = "L40", !.pending = "exit",
                                 !.closes = @ + 1]
                  ELSE [g EXCEPT !.pc = "finally", !.closes = @ + 1],
          run |-> TRUE, ret |-> NoRet]
  ELSE [g |-> [Done(g) EXCEPT !.closes = @ + 1],
        run |-> FALSE, ret |-> Closed]

Top == stack[Len(stack)]
Pop == SubSeq(stack, 1, Len(stack) - 1)
Running(i) == stack # <<>> /\ Top = i

\* the caller i (record gi after its own step) calls the generator j
Call(i, gi, j, res) ==
  /\ gen' = [gen EXCEPT ![i] = gi, ![j] = res.g]
  /\ stack' = IF res.run THEN Append(stack, j) ELSE stack
  /\ ret' = res.ret

(* ---------------------------------------------------------------------- *)
(* state_machine.sm                                                        *)
(* ---------------------------------------------------------------------- *)
\* Branch with line 25 always true: a stay re-enters the state
Branch_reenter(next_state_id, state_id, state) ==
  IF next_state_id = None THEN "L40"
  ELSE IF state # 0 THEN "L27" ELSE "L28"

\* Branch without lines 26-27: the old state is dropped, not closed
Branch_noclose(next_state_id, state_id, state) ==
  IF next_state_id = None THEN "L40"
  ELSE IF next_state_id # state_id THEN "L28"
  ELSE "L32"

\* Branch without lines 22-23: None is entered like any other state id
Branch_nobreak(next_state_id, state_id, state) ==
  IF next_state_id # state_id
    THEN (IF state # 0 THEN "L27" ELSE "L28")
  ELSE "L32"

\* where line 20's result leads: the break of line 23, the transition of
\* lines 26-30 (closing the old state first when there is one), or the
\* send of line 32
Branch(next_state_id, state_id, state) ==
  IF next_state_id = None THEN "L40"
  ELSE IF next_state_id # state_id
    THEN (IF state # 0 THEN "L27" ELSE "L28")
  ELSE "L32"

\* lines 28-30: enter next_state_id; the factory builds the state in slot
\* n + 1 and the machine calls its next().  When the factory raises, line 28
\* has assigned state_id, `state` is still what it was and the finally
\* clause follows.
Enter(i, gi) ==
  \E s \in FactoryOf(i, gi) :
    IF s.kind = "raise"
      THEN /\ gen' = [gen EXCEPT ![i] =
                        [gi EXCEPT !.state_id = gi.next_state_id, !.fcalls = @ + 1,
                                   !.pc = "L40", !.pending = "fault"]]
           /\ ret' = NoRet
           /\ UNCHANGED <<n, stack>>
      ELSE LET res == GenSend(s, NoVal)
               gj == [gi EXCEPT !.state_id = gi.next_state_id, !.state = n + 1,
                                !.fcalls = @ + 1, !.pc = "L30"]
           IN /\ n' = n + 1
              /\ Call(i, gj, n + 1, res)

\* line 36 with the id put in front of the state's vector
YieldValue_prepend(c, s_id_vec, state_id, e) == Yielded(c, <<state_id>> \o s_id_vec, e)

\* line 36 yielding the state's vector as it is
YieldValue_noappend(c, s_id_vec, state_id, e) == Yielded(c, s_id_vec, e)

\* the value the machine yields at line 36
YieldValue(c, s_id_vec, state_id, e) == Yielded(c, Append(s_id_vec, state_id), e)

\* an exception that ends the generator as if it had completed
Outcome_swallow(pending) ==
  CASE pending = "exit" -> Closed
    [] OTHER -> StopIteration

\* what the end of the generator hands to its caller
Outcome(pending) ==
  CASE pending = "stop" -> StopIteration
    [] pending = "exit" -> Closed
    [] OTHER -> Fault

\* the generator ends after its finally clause
Finish(i, gi) ==
  /\ gen' = [gen EXCEPT ![i] = [Done(gi) EXCEPT !.exits = @ + 1]]
  /\ stack' = Pop
  /\ ret' = Outcome(gi.pending)
  /\ n' = n

\* line 37 after a resumption: `ctx, _, evt = yield ...` has been assigned
SmResume(i) ==
  /\ Running(i) /\ gen[i].kind = "sm" /\ gen[i].pc = "L37"
  /\ gen' = [gen EXCEPT ![i] =
               IF gen[i].state_id = None
                 THEN [@ EXCEPT !.pc = "L40", !.pending = "stop"]
                 ELSE [@ EXCEPT !.pc = "L20"]]
  /\ UNCHANGED <<n, stack, ret, drv>>

\* lines 20-32: consult the transition function and act on its result, up to
\* the call made on a state
SmConsult(i) ==
  /\ Running(i) /\ gen[i].kind = "sm" /\ gen[i].pc = "L20"
  /\ \E r \in TransitionOf(gen[i]) :
       LET g == gen[i]
           to == Branch(r, g.state_id, g.state)
           g1 == [g EXCEPT !.next_state_id = r,
                           !.entries = IF r # None /\ r # g.state_id THEN @ + 1 ELSE @]
       IN CASE r = Raises ->
                 /\ gen' = [gen EXCEPT ![i] = [g EXCEPT !.pc = "L40", !.pending = "fault"]]
                 /\ UNCHANGED <<n, stack, ret>>
            [] to = "L40" ->
                 /\ gen' = [gen EXCEPT ![i] = [g1 EXCEPT !.pc = "L40", !.pending = "stop"]]
                 /\ UNCHANGED <<n, stack, ret>>
            [] to = "L27" ->
                 /\ Call(i, [g1 EXCEPT !.pc = "L27"], g.state, GenClose(gen[g.state]))
                 /\ n' = n
            [] to = "L28" -> Enter(i, g1)
            [] OTHER ->
                 IF g.state = 0
                   \* None has no attribute send
                   THEN /\ gen' = [gen EXCEPT ![i] = [g1 EXCEPT !.pc = "L40", !.pending = "fault"]]
                        /\ UNCHANGED <<n, stack, ret>>
                   ELSE /\ Call(i, [g1 EXCEPT !.pc = "L32"], g.state,
                                GenSend(gen[g.state],
                                        [ctx |-> g.ctx, vec |-> <<g.state_id>>, evt |-> g.evt]))
                        /\ n' = n
  /\ UNCHANGED drv

\* line 27 returned: the old state is closed, lines 28-30 follow
SmClosedOld(i) ==
  /\ Running(i) /\ gen[i].kind = "sm" /\ gen[i].pc = "L27"
  /\ ret.kind = "closed"
  /\ Enter(i, gen[i])
  /\ UNCHANGED drv

\* lines 33-35 without line 34: the event is kept
OnStopIteration_keepevt(g) == [g EXCEPT !.absorbed = TRUE, !.pc = "L20"]

\* lines 33-35: the state is done with the event; the loop goes round with
\* no event (absorbed notes that this resumption has taken that path)
OnStopIteration(g) == [g EXCEPT !.evt = None, !.absorbed = TRUE, !.pc = "L20"]

\* line 30 or 32 returned: a value (line 36 yields), StopIteration (lines
\* 33-35) or another exception (the finally clause)
SmReturned(i) ==
  /\ Running(i) /\ gen[i].kind = "sm" /\ gen[i].pc \in {"L30", "L32"}
  /\ ret.kind # "none"
  /\ LET g == gen[i] IN
       CASE ret.kind = "yield" ->
              /\ gen' = [gen EXCEPT ![i] = [g EXCEPT !.ctx = ret.ctx, !.evt = ret.evt,
                                                     !.absorbed = FALSE, !.pc = "L36"]]
              /\ stack' = Pop
              /\ ret' = YieldValue(ret.ctx, ret.vec, g.state_id, ret.evt)
         [] ret.kind = "stop" ->
              /\ gen' = [gen EXCEPT ![i] = OnStopIteration(g)]
              /\ stack' = stack
              /\ ret' = NoRet
         [] OTHER ->
              /\ gen' = [gen EXCEPT ![i] = [g EXCEPT !.pc = "L40", !.pending = "fault"]]
              /\ stack' = stack
              /\ ret' = NoRet
  /\ UNCHANGED <<n, drv>>

\* a finally clause that closes nothing
FinallyCloses_never(g) == FALSE

\* line 40: `if state is not None`
FinallyCloses(g) == g.state # 0

\* lines 39-41: the finally clause closes the state the machine holds
SmFinally(i) ==
  /\ Running(i) /\ gen[i].kind = "sm" /\ gen[i].pc = "L40"
  /\ IF FinallyCloses(gen[i])
       THEN /\ Call(i, [gen[i] EXCEPT !.pc = "L41"], gen[i].state,
                    GenClose(gen[gen[i].state]))
            /\ n' = n
       ELSE Finish(i, gen[i])
  /\ UNCHANGED drv

\* line 41 returned: the generator ends
SmFinished(i) ==
  /\ Running(i) /\ gen[i].kind = "sm" /\ gen[i].pc = "L41"
  /\ ret.kind = "closed"
  /\ Finish(i, gen[i])
  /\ UNCHANGED drv

(* ---------------------------------------------------------------------- *)
(* States: skeleton_state and the states of the examples                   *)
(* ---------------------------------------------------------------------- *)
\* the state id vector a state yields
LeafVec(g) == IF g.style = "own" THEN <<g.state_id>> ELSE <<"-">>

\* SimpleSM1.state: yields what it was given, for ever
SimpleSM1_state(g) == {Yielded(g.ctx, LeafVec(g), g.evt)}

\* what the body of the state g may do next: yield any (ctx, vec, evt),
\* end, or raise an exception; SimpleSM1.state in the chain example
BodyOf(g) ==
  IF App = "chain" THEN SimpleSM1_state(g)
  ELSE {Yielded(c, LeafVec(g), e) : c \in Ctxs, e \in Events} \cup {StopIteration}
         \cup (IF App = "faulty" THEN {Fault} ELSE {})

\* the body of a state runs to its next yield, handing (ctx, vec, evt) to
\* the machine, or ends (its exit code runs; StopIteration or the state's
\* exception is raised)
LeafStep(i) ==
  /\ Running(i) /\ gen[i].kind = "leaf" /\ gen[i].pc = "body"
  /\ \E r \in BodyOf(gen[i]) :
       /\ gen' = [gen EXCEPT ![i] =
                    IF r.kind = "yield"
                      THEN [@ EXCEPT !.ctx = r.ctx, !.evt = r.evt, !.pc = "yield"]
                      ELSE [Done(@) EXCEPT !.exits = @ + 1]]
       /\ ret' = r
  /\ stack' = Pop
  /\ UNCHANGED <<n, drv>>

\* close() on a suspended state: its exit code (the finally clause) runs
LeafExit(i) ==
  /\ Running(i) /\ gen[i].kind = "leaf" /\ gen[i].pc = "finally"
  /\ gen' = [gen EXCEPT ![i] = [Done(@) EXCEPT !.exits = @ + 1]]
  /\ stack' = Pop
  /\ ret' = Closed
  /\ UNCHANGED <<n, drv>>

(* ---------------------------------------------------------------------- *)
(* A caller of the root machine that sends and closes as it likes          *)
(* ---------------------------------------------------------------------- *)
SentVecs == {NoVec, <<"a">>}

CallRoot(res) ==
  /\ gen' = [gen EXCEPT ![Root] = res.g]
  /\ stack' = IF res.run THEN <<Root>> ELSE <<>>
  /\ ret' = res.ret
  /\ n' = n

DriverSend ==
  /\ stack = <<>> /\ drv.mode = "free"
  /\ IF Suspended(gen[Root])
       THEN \E c \in Ctxs, v \in SentVecs, e \in Events :
              CallRoot(GenSend(gen[Root], [ctx |-> c, vec |-> v, evt |-> e]))
       ELSE CallRoot(GenSend(gen[Root], NoVal))
  /\ UNCHANGED drv

DriverClose ==
  /\ stack = <<>> /\ drv.mode = "free"
  /\ gen[Root].closes < MaxClose
  /\ CallRoot(GenClose(gen[Root]))
  /\ UNCHANGED drv

(* ---------------------------------------------------------------------- *)
(* run_sm(sm, callback=None, val=None)                                     *)
(* ---------------------------------------------------------------------- *)
\* drv.val is run_sm's variable val, drv.cb whether a callback was given,
\* drv.last the value the machine yielded last (NoVal: none yet), drv.why
\* how the last run_sm call ended.
\* drv.fresh: val is what the callback computed in this round; drv.resent:
\* the send in progress, of a run with a callback, carries a value the
\* callback did not compute, i.e. the machine's own previous output.
Triple(r) == [ctx |-> r.ctx, vec |-> r.vec, evt |-> r.evt]

\* line 76: val = sm.send(val)
RunSmSend ==
  /\ stack = <<>> /\ drv.mode = "run" /\ drv.pc = "L76"
  /\ CallRoot(GenSend(gen[Root], drv.val))
  /\ drv' = [drv EXCEPT !.pc = "L76w", !.fresh = FALSE,
                        !.resent = drv.cb /\ drv.val # NoVal /\ ~drv.fresh]

\* what run_sm holds once line 76 has returned r
AfterSend(d, r) ==
  CASE r.kind = "yield" ->
         [d EXCEPT !.val = Triple(r), !.last = Triple(r),
                   !.pc = IF d.cb THEN "L78" ELSE "L76"]
    [] r.kind = "stop" -> [d EXCEPT !.pc = "L81", !.why = "stop"]
    [] OTHER -> [d EXCEPT !.pc = "raised"]

\* line 76 returned: a value, StopIteration (lines 79-81) or an exception
RunSmReturned ==
  /\ stack = <<>> /\ drv.mode = "run" /\ drv.pc = "L76w"
  /\ drv' = [AfterSend(drv, ret) EXCEPT !.resent = FALSE]
  /\ UNCHANGED <<gen, n, stack, ret>>

\* line 78: val = callback(sm, val); the callback returns the next input
\* (as StateMachineClassEx1.callback: its context, the vector it was given,
\* the next event) or raises StopIteration
RunSmCallback ==
  /\ stack = <<>> /\ drv.mode = "run" /\ drv.pc = "L78"
  /\ \E c \in Ctxs, e \in Events :
       drv' = [drv EXCEPT !.val = [ctx |-> c, vec |-> drv.val.vec, evt |-> e],
                          !.fresh = TRUE, !.pc = "L76"]
  /\ UNCHANGED <<gen, n, stack, ret>>

\* lines 79-81 closing the machine before returning
HaltEffect_close(g) == [g EXCEPT ![Root] = GenClose(g[Root]).g]

\* lines 79-81: what `except StopIteration: pass` and the return do to the
\* generator objects: nothing
HaltEffect(g) == g

\* line 78 raising StopIteration: the callback halts the run, lines 79-81
RunSmHalt ==
  /\ stack = <<>> /\ drv.mode = "run" /\ drv.pc = "L78"
  /\ drv' = [drv EXCEPT !.pc = "L81", !.why = "halt"]
  /\ gen' = HaltEffect(gen)
  /\ UNCHANGED <<n, stack, ret>>

\* run_sm(sm, callback, val) called again on the halted machine with the
\* value the previous call returned
RunSmAgain ==
  /\ stack = <<>> /\ drv.mode = "run" /\ drv.pc = "L81" /\ drv.why = "halt"
  /\ drv' = [drv EXCEPT !.pc = "L76", !.why = "none"]
  /\ UNCHANGED <<gen, n, stack, ret>>

(* ---------------------------------------------------------------------- *)
(* Specification                                                           *)
(* ---------------------------------------------------------------------- *)
InitGen == [i \in Insts |-> IF i = Root THEN sm(0, 1, "c0", None, None, "dflt") ELSE Free]

Init ==
  /\ gen = InitGen
  /\ n = 1
  /\ stack = <<>>
  /\ ret = NoRet
  /\ drv = [mode |-> "free", app |-> "any"]

Machine ==
  \/ \E i \in DOMAIN gen : SmResume(i)
  \/ \E i \in DOMAIN gen : SmConsult(i)
  \/ \E i \in DOMAIN gen : SmClosedOld(i)
  \/ \E i \in DOMAIN gen : SmReturned(i)
  \/ \E i \in DOMAIN gen : SmFinally(i)
  \/ \E i \in DOMAIN gen : SmFinished(i)
  \/ \E i \in DOMAIN gen : LeafStep(i)
  \/ \E i \in DOMAIN gen : LeafExit(i)

Next ==
  \/ Machine
  \/ DriverSend
  \/ DriverClose

Spec == Init /\ [][Next]_vars

\* the generators keep running while a call is in progress: a step of the
\* machine or of a state that can be taken is taken
SpecLive == Init /\ [][Next]_vars /\ WF_vars(Machine)

\* a fresh machine driven by run_sm, with or without a callback
InitRun ==
  /\ gen = InitGen
  /\ n = 1
  /\ stack = <<>>
  /\ ret = NoRet
  /\ \E cb \in BOOLEAN :
       drv = [mode |-> "run", pc |-> "L76", cb |-> cb, val |-> NoVal, last |-> NoVal,
              why |-> "none", fresh |-> FALSE, resent |-> FALSE]

NextRun ==
  \/ Machine
  \/ RunSmSend
  \/ RunSmReturned
  \/ RunSmCallback
  \/ RunSmHalt
  \/ RunSmAgain

SpecRun == InitRun /\ [][NextRun]_vars

\* the free caller over a machine whose transition function, factory and
\* states may raise exceptions
InitFault ==
  /\ gen = InitGen
  /\ n = 1
  /\ stack = <<>>
  /\ ret = NoRet
  /\ drv = [mode |-> "free", app |-> "faulty"]

SpecFault == InitFault /\ [][Next]_vars

(* ---------------------------------------------------------------------- *)
(* iter_sm(sm, evt_iter=None, callback=None, val=None)                     *)
(* ---------------------------------------------------------------------- *)
\* drv.val is iter_sm's variable val, drv.cb whether a callback was given,
\* drv.it whether evt_iter was given, drv.evs what evt_iter has still to
\* give, drv.k the events taken from it, drv.outs the values iter_sm has
\* yielded, drv.inj the values its consumer has injected, drv.src where
\* the event of val comes from and drv.why how the iteration ended.

\* the event sequences given to iter_sm
RECURSIVE SeqsOf(_, _)
SeqsOf(S, len) ==
  IF len = 0 THEN {<<>>}
  ELSE {Append(q, x) : q \in SeqsOf(S, len - 1), x \in S}
Supplies == SeqsOf(Events, MaxEvents)

\* line 103: val = sm.send(val)
IterSend ==
  /\ stack = <<>> /\ drv.mode = "iter" /\ drv.pc = "L103"
  /\ CallRoot(GenSend(gen[Root], drv.val))
  /\ drv' = [drv EXCEPT !.pc = "L103w"]

\* line 103 returned: a value, or an exception that ends the iteration
\* (StopIteration when the machine has terminated)
IterReturned ==
  /\ stack = <<>> /\ drv.mode = "iter" /\ drv.pc = "L103w"
  /\ drv' = CASE ret.kind = "yield" ->
                  [drv EXCEPT !.val = Triple(ret), !.src = "sm",
                              !.pc = IF drv.cb THEN "L105" ELSE "L106",
                              !.outs = IF drv.cb THEN @ ELSE @ + 1]
             [] ret.kind = "stop" -> [drv EXCEPT !.pc = "done", !.why = "stop"]
             [] OTHER -> [drv EXCEPT !.pc = "done", !.why = "fault"]
  /\ UNCHANGED <<gen, n, stack, ret>>

\* line 105: val = callback(sm, val), then the yield of line 106; the
\* callback returns the context and the vector it was given and the event
\* it likes (as StateMachineClassEx1.callback)
IterCallback ==
  /\ stack = <<>> /\ drv.mode = "iter" /\ drv.pc = "L105"
  /\ \E e \in Events :
       drv' = [drv EXCEPT !.val = [ctx |-> drv.val.ctx, vec |-> drv.val.vec, evt |-> e],
                          !.src = "cb", !.pc = "L106", !.outs = @ + 1]
  /\ UNCHANGED <<gen, n, stack, ret>>

\* line 105 raising StopIteration: the callback halts the iteration
IterHalt ==
  /\ stack = <<>> /\ drv.mode = "iter" /\ drv.pc = "L105"
  /\ drv' = [drv EXCEPT !.pc = "done", !.why = "halt"]
  /\ UNCHANGED <<gen, n, stack, ret>>

\* line 110 taking the last event of the sequence instead of the next one
PullEvent_last(d) ==
  IF d.evs # <<>>
    THEN [d EXCEPT !.val = [@ EXCEPT !.evt = d.evs[Len(d.evs)]], !.src = "evt",
                   !.evs = SubSeq(@, 1, Len(@) - 1), !.k = @ + 1, !.pc = "L103"]
    ELSE [d EXCEPT !.pc = "done", !.why = "exhausted"]

\* lines 109-110 with evt_iter given: the next event replaces the event of
\* val; evt_iter.next() raises StopIteration when nothing is left
PullEvent(d) ==
  IF d.evs # <<>>
    THEN [d EXCEPT !.val = [@ EXCEPT !.evt = Head(d.evs)], !.src = "evt",
                   !.evs = Tail(@), !.k = @ + 1, !.pc = "L103"]
    ELSE [d EXCEPT !.pc = "done", !.why = "exhausted"]

\* lines 109-110 pulling no event when the callback has returned val
NextInput_unlesscb(d) ==
  IF d.it /\ d.src # "cb" THEN PullEvent(d) ELSE [d EXCEPT !.pc = "L103"]

\* lines 107-110 when pval is None: an event is pulled when evt_iter was
\* given, and val is sent again as it is otherwise
NextInput(d) ==
  IF d.it THEN PullEvent(d) ELSE [d EXCEPT !.pc = "L103"]

\* lines 106-110 after next(): pval is None.  The consumer asks for no more
\* values than the events and injected values can account for.
IterNext ==
  /\ stack = <<>> /\ drv.mode = "iter" /\ drv.pc = "L106"
  /\ drv.outs <= drv.k + Len(drv.evs) + MaxInject
  /\ drv' = NextInput(drv)
  /\ UNCHANGED <<gen, n, stack, ret>>

\* lines 106-108 after send(pval): val = pval
IterInject ==
  /\ stack = <<>> /\ drv.mode = "iter" /\ drv.pc = "L106"
  /\ drv.consumer = "send" /\ drv.inj < MaxInject
  /\ \E e \in Events :
       drv' = [drv EXCEPT !.val = [ctx |-> drv.val.ctx, vec |-> NoVec, evt |-> e],
                          !.src = "inj", !.inj = @ + 1, !.pc = "L103"]
  /\ UNCHANGED <<gen, n, stack, ret>>

IterDriver(app, cb, it, evs, consumer) ==
  [mode |-> "iter", app |-> app, pc |-> "L103", val |-> NoVal, cb |-> cb, it |-> it,
   evs |-> evs, k |-> 0, outs |-> 0, inj |-> 0, src |-> "none",
   why |-> "none", consumer |-> consumer]

\* iter_sm over a machine whose states are all plain states
InitIter ==
  /\ gen = [InitGen EXCEPT ![Root] = sm(0, MaxDepth, "c0", None, None, "dflt")]
  /\ n = 1
  /\ stack = <<>>
  /\ ret = NoRet
  /\ \E cb \in BOOLEAN, it \in BOOLEAN :
       \E evs \in (IF it THEN Supplies ELSE {<<>>}) :
         drv = IterDriver("any", cb, it, evs, "send")

Iter ==
  \/ IterSend
  \/ IterReturned
  \/ IterCallback
  \/ IterHalt
  \/ IterNext
  \/ IterInject

NextIter == Machine \/ Iter

SpecIter == InitIter /\ [][NextIter]_vars

(* ---------------------------------------------------------------------- *)
(* for val in iter_sm(sm, iter('n'*20)) over the chain m1, m2, m3          *)
(* ---------------------------------------------------------------------- *)
\* the events of iter('n'*20)
ChainEvents == 20

\* what the doctest prints: (val[1], val[2]) of every value of the loop
ChainOutputs ==
  << [vec |-> <<"-", "s1", "m1">>, evt |-> None],
     [vec |-> <<"-", "s2", "m1">>, evt |-> "n"],
     [vec |-> <<"-", "s1", "m2">>, evt |-> None],
     [vec |-> <<"-", "s2", "m2">>, evt |-> "n"],
     [vec |-> <<"-", "s1", "m3">>, evt |-> None],
     [vec |-> <<"-", "s2", "m3">>, evt |-> "n"] >>

\* the outer machine state_machine(s_f, t_f)(None), iterated by a for loop
\* over a supply of 'n' events that is longer than the values printed, up
\* to the 20 events of the doctest
InitChain ==
  /\ gen = [i \in 1..ChainInsts |->
              IF i = Root THEN sm(0, 1, None, None, None, "dflt") ELSE Free]
  /\ n = 1
  /\ stack = <<>>
  /\ ret = NoRet
  /\ \E len \in (Len(ChainOutputs) + 1)..ChainEvents :
       drv = IterDriver("chain", FALSE, TRUE, [x \in 1..len |-> "n"], "for")

NextChain ==
  \/ Machine
  \/ IterSend
  \/ IterReturned
  \/ IterNext

SpecChain == InitChain /\ [][NextChain]_vars /\ WF_vars(NextChain)

(* ---------------------------------------------------------------------- *)
(* Properties                                                              *)
(* ---------------------------------------------------------------------- *)
Sms == {i \in DOMAIN gen : gen[i].kind = "sm"}
Children(i) == {j \in DOMAIN gen : gen[j].kind # "free" /\ gen[j].parent = i}
\* the machine i ends in this step
Finishing(i) == gen[i].pc # "done" /\ gen'[i].pc = "done"
\* the generator objects nested below i, i included, down to the state
RECURSIVE ChainLen(_)
ChainLen(i) ==
  IF gen[i].kind = "sm" /\ gen[i].state # 0 THEN 1 + ChainLen(gen[i].state) ELSE 1
\* the innermost machine of the chain below i
RECURSIVE Innermost(_)
Innermost(i) ==
  IF gen[i].state # 0 /\ gen[gen[i].state].kind = "sm"
    THEN Innermost(gen[i].state) ELSE i

\* C1: the factory is called once per state entry and never on a stay.  For
\* every machine the number of factory calls equals the number of
\* consultations whose result is neither None nor the current state id (one
\* less while the old state is being closed for the entry under way); a
\* consultation returning the current id creates no generator, calls no
\* factory and sends to the state the machine already holds.
FactoryCount ==
  \A i \in Sms :
    gen[i].fcalls + (IF gen[i].pc = "L27" THEN 1 ELSE 0) = gen[i].entries
StayKeepsState ==
  \A i \in Sms :
    (gen[i].pc = "L20" /\ gen'[i].next_state_id = gen[i].state_id) =>
      /\ n' = n
      /\ gen'[i].fcalls = gen[i].fcalls
      /\ gen'[i].state = gen[i].state
      /\ gen[i].state # 0 => gen'[i].pc = "L32"
C1_FactoryOncePerEntry == [] FactoryCount /\ [][StayKeepsState]_vars
\* a machine that entered two states and now stays in the second
C1_Witness ==
  \E i \in Sms : gen[i].pc = "L32" /\ gen[i].fcalls = 2 /\ gen[i].entries = 2

\* C2: when a machine has ended by termination (break) or by close(), every
\* generator its factory created has run its exit code exactly once; no exit
\* code ever runs twice.
C2_ExitExactlyOnce ==
  /\ \A j \in Insts : gen[j].exits <= 1
  /\ \A i \in Sms :
       (gen[i].pc = "done" /\ gen[i].pending \in {"stop", "exit"}) =>
         \A j \in Children(i) : gen[j].exits = 1
\* the root was closed by its caller after it had replaced a state
C2_Witness ==
  /\ gen[Root].pc = "done" /\ gen[Root].pending = "exit"
  /\ Cardinality(Children(Root)) >= 2

\* C3: leaf-to-root teardown.  In the step in which a machine ends, every
\* generator it created has already ended and run its exit code; a machine
\* in its finally clause waits at line 41 for the one state it holds.
CloseOrder ==
  \A i \in Sms :
    Finishing(i) => \A j \in Children(i) : gen[j].pc = "done" /\ gen[j].exits = 1
CloseWaits ==
  \A i \in Sms :
    (gen[i].pc = "L41" /\ gen[gen[i].state].pc # "done") =>
      /\ Len(stack) >= 2
      /\ \E k \in 1..(Len(stack) - 1) : stack[k] = i /\ stack[k + 1] = gen[i].state
C3_LeafToRootClose == [] CloseWaits /\ [][CloseOrder]_vars
\* a close() of the root that went down two levels: root, sub-machine, state
C3_Witness ==
  /\ gen[Root].pc = "done" /\ gen[Root].pending = "exit"
  /\ \E j \in Children(Root), k \in Insts :
       /\ gen[j].kind = "sm" /\ gen[j].pending = "exit" /\ gen[j].closes = 1
       /\ k \in Children(j) /\ gen[k].kind = "leaf" /\ gen[k].closes = 1

\* C4: a consultation returning None takes the machine to its finally
\* clause without a yield; the machine ends with StopIteration and its state
\* ended; a finished machine stays finished, creates nothing, consults
\* nothing, and a send to the finished root returns StopIteration.
NoneBreaks ==
  \A i \in Sms :
    (gen[i].pc = "L20" /\ gen'[i].next_state_id = None) =>
      /\ gen'[i].pc = "L40" /\ gen'[i].pending = "stop"
      /\ n' = n /\ stack' = stack /\ ret' = ret
      /\ gen'[i].state = gen[i].state
BreakEnds ==
  \A i \in Sms :
    (Finishing(i) /\ gen[i].pending = "stop") =>
      /\ ret'.kind = "stop"
      /\ gen[i].state # 0 => gen[gen[i].state].pc = "done"
ClosedIsTerminal ==
  \A i \in Sms :
    gen[i].pc = "done" =>
      /\ gen'[i] = [gen[i] EXCEPT !.closes = gen'[i].closes]
      /\ n' > n => gen'[n'].parent # i
      /\ (i = Root /\ stack = <<>>) =>
           stack' = <<>> /\ ret'.kind \in {"stop", "closed"} /\ n' = n
C4_NoneCloses == [][NoneBreaks /\ BreakEnds /\ ClosedIsTerminal]_vars
\* the root terminated while it held a state, and was handed StopIteration
C4_Witness ==
  /\ stack = <<>> /\ gen[Root].pc = "done" /\ gen[Root].pending = "stop"
  /\ gen[Root].fcalls >= 1 /\ ret.kind = "stop"

\* C5: a StopIteration from a state is absorbed: the machine stays on the
\* stack, nothing is handed to its caller, its event becomes None, its state
\* id is kept and it stands at line 20 for one consultation with
\* (state_id, None); until the next yield the event stays None, so whatever
\* state is entered or resumed next is given None, not that event.
Absorb ==
  \A i \in Sms :
    (Running(i) /\ gen[i].pc \in {"L30", "L32"} /\ ret.kind = "stop") =>
      /\ gen'[i].pc = "L20" /\ gen'[i].evt = None
      /\ gen'[i].state_id = gen[i].state_id
      /\ stack' = stack /\ ret'.kind = "none"
AbsorbedEvent ==
  \A i \in Sms :
    (gen[i].absorbed /\ gen[i].pc # "L36") =>
      /\ gen[i].evt = None
      /\ (gen[i].pc \in {"L30", "L32"} /\ gen[gen[i].state].pc \in {"body", "L20", "L37"})
           => gen[gen[i].state].evt = None
C5_CompletionAbsorbed == [] AbsorbedEvent /\ [][Absorb]_vars
\* a sub-machine was sent the event n, its state ended on it, and the state
\* entered next runs with no event
C5_Witness ==
  \E i \in Sms :
    /\ i # Root /\ gen[gen[i].parent].pc = "L32" /\ gen[gen[i].parent].evt = "n"
    /\ gen[i].absorbed /\ gen[i].pc = "L30"
    /\ gen[gen[i].state].pc = "body" /\ gen[gen[i].state].evt = None

\* C6: the value a machine yields is the context and event its state
\* yielded, with the state's vector followed by the machine's state id, which
\* is the last result of its transition function.
YieldComposes ==
  \A i \in Sms :
    (Running(i) /\ gen[i].pc \in {"L30", "L32"} /\ ret.kind = "yield") =>
      /\ ret' = Yielded(ret.ctx, ret.vec \o <<gen[i].state_id>>, ret.evt)
      /\ gen[i].state_id = gen[i].next_state_id
      /\ stack' = Pop
C6_OutputComposition == [][YieldComposes]_vars
\* the root's caller holds a three-element vector with a context and an
\* event that differ from what the root was built with
C6_Witness ==
  /\ stack = <<>> /\ ret.kind = "yield" /\ Len(ret.vec) = 3
  /\ ret.ctx = "c1" /\ ret.evt = "n"

\* C7: every vector the root hands to its caller has one element per nested
\* generator object (the machines and the state), its second element is the
\* id the innermost transition function returned last, and so is its first
\* when the state yields its own id (state_ex1).
OutputAtCaller == stack = <<>> /\ ret.kind = "yield"
C8_Claimed ==
  \A i \in Sms : gen[i].u = NoVec => gen[i].pc \in {"L37", "L40", "L41"}

\* C9: a machine's first consultation is made with the (state_id, evt) it
\* was built with: (None, None) for the root and for a sub-machine built
\* with (c, None, None), the parent's new state id and current event for a
\* sub-machine built with the factory's own arguments; a result that is
\* neither None nor the id it was built with becomes its state id.
FirstConsult(i) == gen[i].pc = "L20" /\ gen[i].next_state_id = Unbound
FirstArguments ==
  \A i \in Sms :
    FirstConsult(i) =>
      IF gen[i].style = "args"
        THEN /\ gen[i].state_id = gen[gen[i].parent].state_id
             /\ gen[i].evt = gen[gen[i].parent].evt
        ELSE gen[i].state_id = None /\ gen[i].evt = None
FirstResult ==
  \A i \in Sms :
    (FirstConsult(i) /\ gen'[i].next_state_id \notin {None, gen[i].state_id}) =>
      gen'[i].state_id = gen'[i].next_state_id
C10_Claimed == (drv.mode = "run" /\ drv.pc = "L81") => drv.val = drv.last

\* the generator objects of the chain the machine i holds, i included
RECURSIVE ChainSet(_)
ChainSet(i) ==
  {i} \cup (IF gen[i].kind = "sm" /\ gen[i].state # 0 THEN ChainSet(gen[i].state) ELSE {})

\* C11 as claimed: with a callback, every value sent into the machine after
\* its start is the input the callback computed for that round, in the
\* resumed run_sm call as in an uninterrupted one; no round is repeated.
C11_Claimed == drv.mode = "run" => ~drv.resent

\* C12: when the callback halts run_sm, the generator objects are left as
\* they are: the root is suspended at line 36 with its state id, the chain
\* of states it holds is suspended, none of them was closed or ran its exit
\* code, and the step of the halt changes no generator object.
Halted == drv.mode = "run" /\ drv.pc = "L81" /\ drv.why = "halt"
HaltLeavesChain ==
  Halted =>
    /\ stack = <<>>
    /\ gen[Root].pc = "L36" /\ gen[Root].state_id = gen[Root].next_state_id
    /\ \A j \in ChainSet(Root) :
         Suspended(gen[j]) /\ gen[j].exits = 0 /\ gen[j].closes = 0
HaltStep ==
  (drv.mode = "run" /\ drv.pc = "L78" /\ drv'.pc = "L81") =>
    gen' = gen /\ n' = n /\ stack' = stack
C12_HaltKeepsMachine == [] HaltLeavesChain /\ [][HaltStep]_vars
\* the callback halted a run over a machine that holds a sub-machine and
\* its state
C12_Witness == Halted /\ Cardinality(ChainSet(Root)) = 3

\* C13 as claimed: a round of iter_sm in which the callback returned the
\* value or the consumer injected one takes no event from the sequence.
SuppliedTakesNone ==
  (drv.mode = "iter" /\ drv.pc = "L106" /\ drv'.pc # "L106"
     /\ (drv.src = "cb" \/ drv'.src = "inj"))
  => drv'.k = drv.k /\ drv'.evs = drv.evs
C13_Claimed == [][SuppliedTakesNone]_vars

\* C13: after a yield of iter_sm, an injected value takes no event and is
\* the next input; without one, an event is taken whenever a sequence was
\* given, also when the callback returned the value, and replaces the event
\* of val (the iteration ends when the sequence is exhausted); with no
\* sequence val is unchanged.  What line 103 sends is what the machine gets.
PullRule ==
  (drv.mode = "iter" /\ drv.pc = "L106" /\ drv'.pc # "L106") =>
    IF drv'.src = "inj"
      THEN drv'.k = drv.k /\ drv'.evs = drv.evs /\ drv'.pc = "L103"
    ELSE IF drv.it /\ drv.evs # <<>>
      THEN /\ drv'.k = drv.k + 1 /\ drv'.evs = Tail(drv.evs)
           /\ drv'.val = [drv.val EXCEPT !.evt = Head(drv.evs)]
           /\ drv'.pc = "L103"
    ELSE IF drv.it
      THEN drv'.pc = "done" /\ drv'.k = drv.k
    ELSE drv'.val = drv.val /\ drv'.k = drv.k /\ drv'.pc = "L103"
Delivered ==
  (drv.mode = "iter" /\ drv.pc = "L103" /\ drv'.pc = "L103w"
     /\ Suspended(gen[Root]))
  => /\ gen'[Root].pc = "L37"
     /\ gen'[Root].ctx = drv.val.ctx /\ gen'[Root].evt = drv.val.evt
C13_PullRule == [][PullRule /\ Delivered]_vars
\* with a callback, an event was pulled in one round and a value injected in
\* another, and the machine has been resumed with the latest input
C13_Witness ==
  /\ drv.mode = "iter" /\ drv.cb /\ drv.k >= 1 /\ drv.inj = 1
  /\ drv.pc = "L103w" /\ gen[Root].pc = "L37"

\* C14: the chain visits m1, m2, m3 in this order, each once; each of them
\* goes s1, s2 and then terminates by itself before the next is entered;
\* the values iter_sm yields are the six of the doctest, one per event
\* after the first; and the run terminates with six events consumed from
\* the longer supply and six values yielded.
ChainPrinted ==
  drv.pc = "L106" =>
    /\ drv.outs \in 1..Len(ChainOutputs)
    /\ drv.val.vec = ChainOutputs[drv.outs].vec
    /\ drv.val.evt = ChainOutputs[drv.outs].evt
    /\ drv.k = drv.outs - 1
Visited(i, ids) ==
  /\ gen[i].fcalls <= Len(ids)
  /\ gen[i].pc \notin {"start", "L20", "done"} /\ gen[i].fcalls > 0
       => gen[i].state_id = ids[gen[i].fcalls]
  /\ Cardinality(Children(i)) = gen[i].fcalls
ChainOrder ==
  /\ Visited(Root, <<"m1", "m2", "m3">>)
  /\ \A j \in Children(Root) :
       /\ Visited(j, <<"s1", "s2">>)
       /\ j # gen[Root].state /\ gen[Root].pc # "done"
            => gen[j].pc = "done" /\ gen[j].pending = "stop" /\ gen[j].fcalls = 2
ChainTerminated ==
  /\ drv.pc = "done" /\ drv.why = "stop"
  /\ drv.k = Len(ChainOutputs) /\ drv.outs = Len(ChainOutputs)
  /\ n = ChainInsts /\ \A i \in DOMAIN gen : gen[i].pc = "done"
C14_Chain == [](ChainPrinted /\ ChainOrder) /\ <>[]ChainTerminated
\* the chain has terminated and events are left in the supply
C14_Witness == drv.mode = "iter" /\ drv.app = "chain" /\ ChainTerminated /\ drv.evs # <<>>

\* C15: a sub-machine is resumed with an event only by its parent's line 32,
\* after the parent's transition function returned the id the parent is in
\* for that event, and then it gets the parent's ctx and evt; whenever the
\* parent stays in a suspended sub-machine the event is forwarded so; when
\* the parent goes to another id the sub-machine is closed with its own evt
\* unchanged, consults nothing any more and ends with its states finished;
\* and the state the parent then enters is a new generator object that has
\* no state of its own yet and has consulted nothing.
SubMachines == {j \in Sms : gen[j].parent # 0}
Forwarded(j) == gen[j].pc = "L36" /\ gen'[j].pc = "L37"
Stays(p) == gen[p].kind = "sm" /\ gen[p].pc = "L20" /\ gen'[p].pc = "L32"
GoesAway(p) ==
  /\ gen[p].kind = "sm" /\ gen[p].pc = "L20" /\ gen'[p].pc \in {"L27", "L30"}
  /\ gen[p].state # 0
ForwardedOnlyOnStay ==
  \A j \in SubMachines :
    Forwarded(j) =>
      LET p == gen[j].parent IN
        /\ Stays(p) /\ gen[p].state = j
        /\ gen'[p].next_state_id = gen[p].state_id
        /\ gen'[j].evt = gen[p].evt /\ gen'[j].ctx = gen[p].ctx
StayForwards ==
  \A p \in Sms :
    (Stays(p) /\ gen[p].state \in SubMachines /\ Suspended(gen[gen[p].state]))
      => Forwarded(gen[p].state)
AwayCloses ==
  \A p \in Sms :
    (GoesAway(p) /\ gen[p].state \in SubMachines /\ Suspended(gen[gen[p].state]))
      => LET j == gen[p].state IN
           /\ gen'[p].next_state_id \notin {None, gen[p].state_id}
           /\ gen'[j].pc = "L40" /\ gen'[j].pending = "exit"
           /\ gen'[j].evt = gen[j].evt /\ gen'[j].closes = 1
ClosingConsultsNothing ==
  \A j \in Sms :
    gen[j].pc \in {"L40", "L41", "done"} => gen'[j].pc \in {"L40", "L41", "done"}
EnteredIsFresh ==
  n' = n + 1 =>
    LET j == n + 1
        p == gen'[j].parent
    IN /\ gen[j].kind = "free" /\ gen'[p].state = j /\ gen[p].state # j
       /\ gen'[p].pc = "L30"
       /\ gen'[j].pc = (IF gen'[j].kind = "sm" THEN "L20" ELSE "body")
       /\ gen'[j].state = 0 /\ gen'[j].next_state_id = Unbound
       /\ gen'[j].fcalls = 0 /\ gen'[j].closes = 0
FinishedHoldsNothing ==
  \A j \in Sms : gen[j].pc = "done" => \A c \in Children(j) : gen[c].pc = "done"
C15_NestedDispatch ==
  /\ []FinishedHoldsNothing
  /\ [][ForwardedOnlyOnStay /\ StayForwards /\ AwayCloses
          /\ ClosingConsultsNothing /\ EnteredIsFresh]_vars
\* a parent has left a sub-machine, which was closed together with the state
\* it held, and has entered a second sub-machine
C15_Witness ==
  \E j \in Children(Root) :
    /\ gen[j].kind = "sm" /\ gen[j].pc = "done" /\ gen[j].pending = "exit"
    /\ \E c \in Children(j) : gen[c].closes = 1 /\ gen[c].exits = 1
    /\ gen[Root].state # j /\ gen[Root].state \in SubMachines
    /\ gen[gen[Root].state].pc = "L20"

\* C16: an exception of the transition function, of the factory or of a
\* state that reaches a machine is not taken for a completion: the machine
\* goes to its finally clause with the exception pending, keeps it pending,
\* and hands it to its caller when it ends; and a machine that has ended
\* holds no state that is not finished with its exit code run once.
FaultNotAbsorbed ==
  \A i \in Sms :
    (Running(i) /\ gen[i].pc \in {"L30", "L32"} /\ ret.kind = "fault")
      => /\ gen'[i].pc = "L40" /\ gen'[i].pending = "fault"
         /\ gen'[i].evt = gen[i].evt /\ gen'[i].absorbed = gen[i].absorbed
FaultStays ==
  \A i \in Sms :
    gen[i].pending = "fault"
      => gen'[i].pending = "fault" /\ gen'[i].pc \in {"L40", "L41", "done"}
FaultHandedUp ==
  \A i \in Sms :
    (gen[i].pending = "fault" /\ gen[i].pc # "done" /\ gen'[i].pc = "done")
      => ret' = Fault /\ stack' = Pop
TornDown ==
  \A i \in Sms :
    gen[i].pc = "done"
      => \A c \in Children(i) : gen[c].pc = "done" /\ gen[c].exits = 1
C16_FaultPropagates ==
  []TornDown /\ [][FaultNotAbsorbed /\ FaultStays /\ FaultHandedUp]_vars
\* the caller got the exception from the root machine, whose teardown
\* closed a suspended state
C16_Witness ==
  /\ drv.app = "faulty" /\ stack = <<>> /\ ret = Fault
  /\ gen[Root].pc = "done" /\ gen[Root].pending = "fault"
  /\ \E c \in Children(Root) : gen[c].closes = 1 /\ gen[c].pending = "exit"

\* C17 as claimed: a machine calls close() on a state it created at most
\* once, whatever the path.
C17_Claimed == \A j \in DOMAIN gen : gen[j].parent # 0 => gen[j].closes <= 1

\* C18: of the states a machine has created at most one is not finished,
\* and it is the one the machine holds; so no state is created while an
\* earlier one of the same machine is still open.
OpenChildren(i) == {c \in Children(i) : gen[c].pc # "done"}
C18_OneOpenChild ==
  \A i \in Sms :
    /\ Cardinality(OpenChildren(i)) <= 1
    /\ OpenChildren(i) \subseteq {gen[i].state}
\* a machine holds its second state, the first one being finished
C18_Witness ==
  \E i \in Sms :
    /\ Cardinality(Children(i)) = 2 /\ Cardinality(OpenChildren(i)) = 1
    /\ gen[i].pc = "L36"

\* C19: when a machine enters a state, every state it created before is
\* finished with its exit code run; the new state was built from the
\* machine's ctx, the new id and the event of the consultation (a factory
\* like s_f hands its sub-machine the ctx only); the state that is left was
\* closed, not resumed, and is never resumed afterwards; and the value the
\* machine yields after line 30 is made of what the new state, resumed by
\* nobody yet, has yielded.
Entering(p) == gen[p].kind = "sm" /\ gen[p].pc \in {"L20", "L27"} /\ gen'[p].pc = "L30"
ExitBeforeFactory ==
  \A p \in Sms :
    Entering(p) => \A c \in Children(p) : gen[c].pc = "done" /\ gen[c].exits = 1
BuiltFromTrigger ==
  \A p \in Sms :
    Entering(p) =>
      LET j == gen'[p].state IN
        /\ j = n + 1 /\ gen[j].kind = "free" /\ gen'[j].parent = p
        /\ gen'[p].state_id = gen'[p].next_state_id /\ gen'[p].evt = gen[p].evt
        /\ gen'[j].ctx = gen[p].ctx
        /\ gen'[j].style # "dflt"
             => gen'[j].state_id = gen'[p].next_state_id /\ gen'[j].evt = gen[p].evt
        /\ gen'[j].style = "dflt"
             => gen'[j].state_id = None /\ gen'[j].evt = None
LeftNotResumed ==
  \A p \in Sms :
    (gen[p].pc = "L20" /\ gen'[p].pc \in {"L27", "L30"} /\ gen[p].state # 0)
      => LET c == gen[p].state IN
           /\ gen'[p].pc = "L27" /\ gen'[c].closes = gen[c].closes + 1
           /\ gen'[c].pc \in {"finally", "L40", "done"}
           /\ gen'[c].evt = gen[c].evt /\ gen'[c].ctx = gen[c].ctx
ClosedNotResumed ==
  \A c \in DOMAIN gen :
    gen[c].closes > 0 => gen'[c].pc \in {"finally", "L40", "L41", "done"}
FirstOutput ==
  \A p \in Sms :
    (Running(p) /\ gen[p].pc = "L30" /\ ret.kind = "yield")
      => LET j == gen[p].state IN
           /\ Suspended(gen[j])
           /\ gen[j].kind = "sm" => gen[j].u = UnboundVec
           /\ gen[j].kind = "leaf" => ret.vec = LeafVec(gen[j])
           /\ gen'[p].pc = "L36"
           /\ ret' = YieldValue(gen[j].ctx, ret.vec, gen[p].next_state_id, gen[j].evt)
C19_TransitionOrder ==
  [][ExitBeforeFactory /\ BuiltFromTrigger /\ LeftNotResumed
       /\ ClosedNotResumed /\ FirstOutput]_vars
\* a machine has left a state for a sub-machine, which was resumed by
\* nobody yet, and has yielded the value made of the sub-machine's
C19_Witness ==
  /\ gen[Root].pc = "L36" /\ gen[Root].fcalls = 2 /\ gen[Root].evt = "n"
  /\ \E c \in Children(Root) :
       c # gen[Root].state /\ gen[c].closes = 1 /\ gen[c].exits = 1
  /\ gen[gen[Root].state].kind = "sm" /\ gen[gen[Root].state].u = UnboundVec

\* C20 as claimed: every call made on the root machine returns: whatever
\* the transition function and the states do, the call chain is empty
\* again after finitely many steps.
C20_Claimed == (stack # <<>>) ~> (stack = <<>>)

\* C21 as claimed: whenever the transition function returns the id the
\* machine is in (not None), so that line 32 is taken, the machine holds a
\* state to send to; also on the first consultation of a machine built
\* with a state id.
StayHoldsChild ==
  \A i \in Sms :
    (gen[i].pc = "L20" /\ gen'[i].pc # "L20" /\ gen[i].state_id # None
       /\ gen'[i].next_state_id = gen[i].state_id)
      => gen[i].state # 0
C21_Claimed == [][StayHoldsChild]_vars

\* C22: iter_sm over a sequence of events, with no callback and no injected
\* value.  While the machine keeps yielding, iter_sm has yielded one value
\* more than it has taken events; the events are taken one at a time from
\* the front of the sequence, each is sent to the machine once, as the
\* event of the next send, before the next one is taken; and when the
\* sequence is exhausted the iteration ends with one value more than there
\* were events, the machine not closed and suspended at line 36 with the
\* state it holds suspended too.
PlainIteration == drv.mode = "iter" /\ ~drv.cb /\ drv.it /\ drv.inj = 0
OnePerEvent ==
  PlainIteration =>
    /\ drv.pc = "L106" => drv.outs = drv.k + 1
    /\ drv.pc \in {"L103", "L103w"} => drv.outs = drv.k
    /\ drv.pc \in {"L103", "L103w"} /\ drv.k > 0 => drv.src = "evt"
ExhaustedLeavesMachine ==
  (PlainIteration /\ drv.why = "exhausted") =>
    /\ drv.pc = "done" /\ drv.evs = <<>> /\ drv.outs = drv.k + 1
    /\ stack = <<>> /\ gen[Root].pc = "L36" /\ gen[Root].state # 0
    /\ \A j \in ChainSet(Root) :
         Suspended(gen[j]) /\ gen[j].closes = 0 /\ gen[j].exits = 0
FedInOrder ==
  (PlainIteration /\ drv'.inj = 0) =>
    /\ drv'.k + Len(drv'.evs) = drv.k + Len(drv.evs)
    /\ drv'.k \in {drv.k, drv.k + 1}
    /\ drv'.k = drv.k + 1
         => /\ drv.pc = "L106" /\ drv'.pc = "L103"
            /\ drv'.val.evt = Head(drv.evs) /\ drv'.evs = Tail(drv.evs)
    /\ (drv.pc = "L106" /\ drv'.pc # "L106")
         => IF drv.evs # <<>> THEN drv'.k = drv.k + 1
            ELSE drv'.pc = "done" /\ drv'.why = "exhausted" /\ gen' = gen
    /\ drv.pc = "L103"
         => /\ drv'.pc \in {"L103", "L103w"}
            /\ drv'.pc = "L103w" /\ Suspended(gen[Root])
                 => gen'[Root].pc = "L37" /\ gen'[Root].evt = drv.val.evt
    /\ drv.pc = "L103w" => drv'.pc \in {"L103w", "L106", "done"}
C22_PlainIteration ==
  [](OnePerEvent /\ ExhaustedLeavesMachine) /\ [][FedInOrder]_vars
\* the iteration has taken every event of the sequence, the machine has
\* changed state on the way, and the sequence is exhausted
C22_Witness ==
  /\ PlainIteration /\ drv.why = "exhausted"
  /\ drv.k = MaxEvents /\ drv.outs = MaxEvents + 1
  /\ gen[Root].fcalls = 2

TypeOK ==
  /\ n \in Insts
  /\ \A i \in Insts : gen[i].kind = "free" <=> i > n
  /\ \A k \in 1..Len(stack) : stack[k] \in 1..n

====
